---- MODULE Spec2Model ----
(***************************************************************************)
(* Model of the iamport REST client (package iamport).                     *)
(*                                                                         *)
(* One Client value is shared by the goroutines in Callers.  A call is cut *)
(* at the points where the code blocks on the network or touches the       *)
(* shared AccessToken:                                                     *)
(*   idle --call--> tokenWait --200/code 0--> storeExpired --> apiWait     *)
(*                                                       --> idle (return) *)
(* Errors are modelled as the sequence of text pieces of the message, nil  *)
(* as the empty sequence.  time.Time is modelled by its whole seconds      *)
(* since January 1, year 1 (the internal representation of package time),  *)
(* so that the zero Time is 0 and time.Unix adds the epoch offset.         *)
(***************************************************************************)
EXTENDS Integers, Sequences, FiniteSets, TLC

VARIABLES APIKey, APISecret, AccessToken, srcFile, usage, now, pc, call, ret, acqFailed

vars == <<APIKey, APISecret, AccessToken, srcFile, usage, now, pc, call, ret, acqFailed>>

-----------------------------------------------------------------------------
(* Bounds *)

\* seconds from the zero Time to the Unix epoch (62135596800 in package
\* time), scaled down to the size of the model
UnixToInternal == 2

\* the clock runs from the Unix epoch to MaxClock seconds after it
MaxClock == 3

\* number of goroutines that share the client
NumCallers == 2

Callers == 1..NumCallers

-----------------------------------------------------------------------------
(* Values *)

\* the two snapshots of the package under src/
SrcFiles == {"iamport.go", "part_001"}

Keys == {"", "key"}

Secrets == {"", "secret"}

\* access_token values the token endpoint may answer with
AccessTokens == {"", "tokA", "tokB"}

\* expired_at values (Unix seconds); the first one is the zero Time
ExpiredAts == {0 - UnixToInternal, 1, 2}

\* identifiers a caller passes; "%zz" is not a valid URL escape
UIDs == {"uid_1", "%zz"}

Pages == {0, 2}

StatusAll == "all"

\* the status a caller passes; "%zz" is not a valid URL escape
StatusArgs == {StatusAll, "%zz"}

Amounts == {100}

StatusOK == 200

StatusUnauthorized == 401

StatusNotFound == 404

StatusInternalServerError == 500

Statuses == {StatusOK, StatusUnauthorized, StatusNotFound, StatusInternalServerError}

Messages == {"", "boom"}

\* error values: the pieces of the error text, nil is the empty sequence
ErrNil == <<>>

ErrAPIKey == <<"iamport: APIKey is missing">>

ErrAPISecret == <<"iamport: APISecret is missing">>

ErrUnauthorized == <<"iamport: unauthorized">>

ErrUnknown == <<"iamport: unknown error">>

ErrInvalidImpUID == <<"iamport: invalid imp_uid">>

ErrInvalidMerchantUID == <<"iamport: invalid merchant_uid">>

ErrInvalidStatusOrPage == <<"iamport: invalid status or page">>

\* fmt.Errorf("iamport: %s", msg)
Errorf(msg) == <<"iamport: ", msg>>

\* errors made outside the package: transport, encoding/json, net/url
ErrTransport == <<"net/http: transport error">>

ErrSyntax == <<"encoding/json: syntax error">>

ErrUnmarshalType == <<"encoding/json: cannot unmarshal">>

ErrURL == <<"net/url: invalid URL escape">>

Get(obj, k, d) == IF k \in DOMAIN obj THEN obj[k] ELSE d

-----------------------------------------------------------------------------
(* time.Time *)

\* the zero value of time.Time, the value of Expired in a new Client
ZeroTime == 0

IsZero(t) == t = ZeroTime

Before(t, u) == t < u

\* TimeUnix on the wrong scale: sec taken as seconds since year 1
TimeUnix_NoOffset(sec) == sec

\* time.Unix(sec, 0)
TimeUnix(sec) == sec + UnixToInternal

\* t.Unix()
UnixOf(t) == t - UnixToInternal

-----------------------------------------------------------------------------
(* Operations and the records they return *)

LookupOps == {"GetPaymentImpUID", "GetPaymentMerchantUID", "GetPaymentsStatus"}

CancelOps == {"CancelPaymentImpUID", "CancelPaymentMerchantUID"}

PrepareOps == {"PreparePayment", "GetPreparedPayment"}

AuthOps == LookupOps \cup CancelOps \cup PrepareOps

\* the operations each snapshot defines besides GetToken
OpsOf(file) == IF file = "part_001" THEN LookupOps ELSE AuthOps

\* the type of data.Response in each operation
RecType(op) ==
    CASE op \in {"GetPaymentImpUID", "GetPaymentMerchantUID"} \cup CancelOps -> "Payment"
      [] op = "GetPaymentsStatus" -> "PagedPayments"
      [] op \in PrepareOps -> "Prepared"
      [] OTHER -> "Token"

\* the json keys of the modelled fields of each type
Fields(T) ==
    CASE T = "Payment" -> {"imp_uid", "merchant_uid", "amount"}
      [] T = "PagedPayments" -> {"total", "next"}
      [] T = "Prepared" -> {"merchant_uid", "amount"}
      [] OTHER -> {"access_token", "expired_at", "now"}

IntFields == {"amount", "total", "next", "expired_at", "now"}

ZeroField(k) == IF k \in IntFields THEN 0 ELSE ""

\* the zero value of a record type
Zero(T) == [k \in Fields(T) |-> ZeroField(k)]

\* what GetToken returns next to its error: nothing
NoRec == [k \in {} |-> 0]

ZeroOf(op) == IF op = "GetToken" THEN NoRec ELSE Zero(RecType(op))

-----------------------------------------------------------------------------
(* HTTP responses *)

EmptyObj == [k \in {} |-> 0]

\* the "response" member of an envelope of the API endpoints
Payloads ==
    { EmptyObj,
      [imp_uid |-> "uid_1", merchant_uid |-> "uid_1", amount |-> 100, total |-> 1, next |-> 2] }

\* a body is a JSON text: syntaxOK says that it is valid JSON, typeOK that
\* every member has the JSON type of the field it is decoded into, obj is
\* the object it denotes
ApiObjs == [code : {0, 1}, message : Messages, response : Payloads]

TokenObjs ==
    { [code |-> 0, message |-> "", response |-> [access_token |-> a, expired_at |-> e, now |-> 0]] :
        a \in AccessTokens, e \in ExpiredAts }
    \cup { [code |-> 1, message |-> "boom", response |-> EmptyObj],
           [code |-> 1, message |-> "boom",
            response |-> [access_token |-> "tokB", expired_at |-> 2, now |-> 0]] }

BadBody == [syntaxOK |-> FALSE, typeOK |-> FALSE, obj |-> EmptyObj]

BodiesOf(objs) ==
    {BadBody} \cup { [syntaxOK |-> TRUE, typeOK |-> t, obj |-> o] : t \in BOOLEAN, o \in objs }

\* the body sent along with a status other than 200: a valid envelope
GoodApiBody ==
    [syntaxOK |-> TRUE, typeOK |-> TRUE,
     obj |-> [code |-> 0, message |-> "",
              response |-> [imp_uid |-> "uid_1", merchant_uid |-> "uid_1", amount |-> 100,
                            total |-> 1, next |-> 2]]]

GoodTokenBody ==
    [syntaxOK |-> TRUE, typeOK |-> TRUE,
     obj |-> [code |-> 0, message |-> "",
              response |-> [access_token |-> "tokB", expired_at |-> 2, now |-> 0]]]

\* no response: the request was not sent or not answered
NoResp == [terr |-> FALSE, status |-> 0, body |-> BadBody]

TransportFailure == [terr |-> TRUE, status |-> 0, body |-> BadBody]

ResponsesOf(objs, good) ==
    {TransportFailure}
    \cup { [terr |-> FALSE, status |-> StatusOK, body |-> b] : b \in BodiesOf(objs) }
    \cup { [terr |-> FALSE, status |-> s, body |-> good] : s \in Statuses \ {StatusOK} }

ApiResponses == ResponsesOf(ApiObjs, GoodApiBody)

TokenResponses == ResponsesOf(TokenObjs, GoodTokenBody)

-----------------------------------------------------------------------------
(* The code of the package *)

\* GetTokenCheck without the test of APISecret
GetTokenCheck_KeyOnly(key, secret) ==
    IF key = "" THEN ErrAPIKey ELSE ErrNil

\* GetToken, the configuration checks before the request is built
GetTokenCheck(key, secret) ==
    IF key = "" THEN ErrAPIKey
    ELSE IF secret = "" THEN ErrAPISecret
    ELSE ErrNil

\* NeedsToken without the case of the empty token
NeedsToken_NoEmptyCase(tok, exp, t) ==
    \/ IsZero(exp)
    \/ ~Before(exp, t)

\* authorization, the case list of the switch: TRUE when GetToken is called
NeedsToken(tok, exp, t) ==
    \/ tok = ""
    \/ IsZero(exp)
    \/ ~Before(exp, t)

\* the json tag of the Message field of the envelope of each operation
MessageTag(file, op) ==
    IF file = "part_001" /\ op \in LookupOps THEN "string" ELSE "message"

\* the error of the operations that test for StatusNotFound
NotFoundErr(op) ==
    CASE op = "GetPaymentImpUID" -> ErrInvalidImpUID
      [] op \in {"GetPaymentMerchantUID", "GetPreparedPayment"} -> ErrInvalidMerchantUID
      [] op = "GetPaymentsStatus" -> ErrInvalidStatusOrPage
      [] OTHER -> ErrUnknown

\* StatusErr without the test for StatusUnauthorized
StatusErr_NoUnauthorized(op, status) ==
    IF status = StatusNotFound /\ op \in LookupOps \cup {"GetPreparedPayment"}
    THEN NotFoundErr(op)
    ELSE IF status # StatusOK THEN ErrUnknown
    ELSE ErrNil

\* the tests of res.StatusCode, in the order of the code
StatusErr(op, status) ==
    IF status = StatusUnauthorized THEN ErrUnauthorized
    ELSE IF status = StatusNotFound /\ op \in LookupOps \cup {"GetPreparedPayment"}
         THEN NotFoundErr(op)
    ELSE IF status # StatusOK THEN ErrUnknown
    ELSE ErrNil

\* json.NewDecoder(res.Body).Decode(&data) into a zero envelope whose
\* Message field has the tag tag and whose Response field has type T: a
\* syntax error leaves data alone, a type error is reported after the other
\* members have been decoded
Decode(body, tag, T) ==
    IF ~body.syntaxOK
    THEN [err |-> ErrSyntax, Code |-> 0, Message |-> "", Response |-> Zero(T)]
    ELSE [err |-> IF body.typeOK THEN ErrNil ELSE ErrUnmarshalType,
          Code |-> Get(body.obj, "code", 0),
          Message |-> Get(body.obj, tag, ""),
          Response |-> [k \in Fields(T) |->
                          Get(Get(body.obj, "response", EmptyObj), k, ZeroField(k))]]

\* Finish without the test of data.Code
Finish_IgnoreCode(file, op, resp) ==
    LET T == RecType(op)
        d == Decode(resp.body, MessageTag(file, op), T)
    IN  IF resp.terr THEN [err |-> ErrTransport, rec |-> Zero(T), decoded |-> FALSE]
        ELSE IF StatusErr(op, resp.status) # ErrNil
             THEN [err |-> StatusErr(op, resp.status), rec |-> Zero(T), decoded |-> FALSE]
        ELSE IF d.err # ErrNil THEN [err |-> d.err, rec |-> d.Response, decoded |-> TRUE]
        ELSE [err |-> ErrNil, rec |-> d.Response, decoded |-> TRUE]

\* an operation from the answer of its request to its return
Finish(file, op, resp) ==
    LET T == RecType(op)
        d == Decode(resp.body, MessageTag(file, op), T)
    IN  IF resp.terr THEN [err |-> ErrTransport, rec |-> Zero(T), decoded |-> FALSE]
        ELSE IF StatusErr(op, resp.status) # ErrNil
             THEN [err |-> StatusErr(op, resp.status), rec |-> Zero(T), decoded |-> FALSE]
        ELSE IF d.err # ErrNil THEN [err |-> d.err, rec |-> d.Response, decoded |-> TRUE]
        ELSE IF d.Code # 0 THEN [err |-> Errorf(d.Message), rec |-> d.Response, decoded |-> TRUE]
        ELSE [err |-> ErrNil, rec |-> d.Response, decoded |-> TRUE]

\* url.Parse inside http.NewRequest rejects an invalid escape
NewRequestErr(url) ==
    IF \E i \in 1..Len(url) : url[i] = "%zz" THEN ErrURL ELSE ErrNil

\* GetPaymentsStatus, the URL: ?page= is appended for a positive page
StatusURL(status, page) ==
    IF page > 0
    THEN <<"https://api.iamport.kr/payments/status/", status, "?page=", ToString(page)>>
    ELSE <<"https://api.iamport.kr/payments/status/", status>>

-----------------------------------------------------------------------------
(* State *)

\* the arguments of a call that has none of interest
NoArgs ==
    [uid |-> "",
     options |-> [nil |-> TRUE,
                  ops |-> [Amount |-> "", Reason |-> "", RefundHolder |-> "",
                           RefundBank |-> "", RefundAccount |-> ""]]]

\* the frame of a call: op and the arguments of a cancellation, the cache
\* and the clock as authorization saw them, the requests sent so far, the
\* Authorization header, the form and the body of the API request, the
\* answer of the last request and the expired_at that is still to be stored
NoCall ==
    [op |-> "none", args |-> NoArgs, tok0 |-> "", exp0 |-> ZeroTime, now0 |-> ZeroTime,
     tokReqs |-> 0, apiReqs |-> 0, hdr |-> "", form |-> EmptyObj, body |-> <<>>,
     resp |-> NoResp, expiredAt |-> 0]

\* what the call that returned last handed to its caller, until the next
\* call begins: the operation, where it ended ("url", "creds", "token" or
\* "api"), the error, the record, whether a body was decoded, the answer of
\* its last request
NoRet ==
    [op |-> "none", stage |-> "none", err |-> ErrNil, rec |-> NoRec, decoded |-> FALSE,
     resp |-> NoResp]

\* NewClient: the key and the secret are the caller's, the cache is zero
NewClient ==
    /\ APIKey \in Keys
    /\ APISecret \in Secrets
    /\ srcFile \in SrcFiles
    /\ AccessToken = [Token |-> "", Expired |-> ZeroTime]
    /\ now = TimeUnix(0)
    /\ pc = [c \in Callers |-> "idle"]
    /\ call = [c \in Callers |-> NoCall]
    /\ ret = NoRet
    /\ acqFailed = FALSE

\* the client is used by one call at a time
Init == NewClient /\ usage = "sequential"

\* caller c may begin a call: the Client has no lock, one call at a time is
\* the discipline of its users
CanCall(c) ==
    /\ pc[c] = "idle"
    /\ usage = "sequential" => \A d \in Callers : pc[d] = "idle"

\* a call returns err and rec to its caller
Return(c, fr, stage, err, rec, decoded) ==
    /\ pc' = [pc EXCEPT ![c] = "idle"]
    /\ call' = [call EXCEPT ![c] = NoCall]
    /\ ret' = [op |-> fr.op, stage |-> stage, err |-> err, rec |-> rec, decoded |-> decoded,
               resp |-> fr.resp]

\* cli.HTTP.PostForm to /users/getToken
SendToken(c, fr) ==
    /\ pc' = [pc EXCEPT ![c] = "tokenWait"]
    /\ call' = [call EXCEPT ![c] = [fr EXCEPT !.tokReqs = fr.tokReqs + 1]]
    /\ ret' = NoRet

\* req.Header.Set("Authorization", auth); cli.HTTP.Do(req)
SendAPI(c, fr, auth) ==
    /\ pc' = [pc EXCEPT ![c] = "apiWait"]
    /\ call' = [call EXCEPT ![c] = [fr EXCEPT !.apiReqs = fr.apiReqs + 1, !.hdr = auth]]
    /\ ret' = NoRet

\* the frame of a new call of op
Frame(op) ==
    [NoCall EXCEPT !.op = op, !.tok0 = AccessToken.Token,
                   !.exp0 = AccessToken.Expired, !.now0 = now]

-----------------------------------------------------------------------------
(* Cancel options *)

NoOptions == [Amount |-> "", Reason |-> "", RefundHolder |-> "", RefundBank |-> "",
              RefundAccount |-> ""]

\* the options a caller passes; nil is [nil |-> TRUE]
OptionSets ==
    { [nil |-> TRUE, ops |-> NoOptions],
      [nil |-> FALSE, ops |-> NoOptions],
      [nil |-> FALSE, ops |-> [NoOptions EXCEPT !.Amount = "100", !.Reason = "customer request"]],
      [nil |-> FALSE, ops |-> [Amount |-> "100", Reason |-> "customer request",
                               RefundHolder |-> "holder", RefundBank |-> "04",
                               RefundAccount |-> "1234"]] }

\* the form key of each field of CancelOptions
OptionKey ==
    [Amount |-> "amount", Reason |-> "reason", RefundHolder |-> "refund_holder",
     RefundBank |-> "refund_bank", RefundAccount |-> "refund_account"]

\* form without the test of Reason: reason is set even when it is empty
form_ReasonAlways(ops) ==
    LET set == { f \in DOMAIN ops : ops[f] # "" \/ f = "Reason" }
    IN  [k \in { OptionKey[f] : f \in set } |->
            ops[CHOOSE f \in set : OptionKey[f] = k]]

\* CancelOptions.form: a value for every field that is not empty
form(ops) ==
    LET set == { f \in DOMAIN ops : ops[f] # "" }
    IN  [k \in { OptionKey[f] : f \in set } |->
            ops[CHOOSE f \in set : OptionKey[f] = k]]

\* url.Values.Set
FormSet(vals, key, val) ==
    [k \in DOMAIN vals \cup {key} |-> IF k = key THEN val ELSE vals[k]]

\* cancelPayment, the form of the request
CancelForm(key, uid, options) ==
    FormSet(IF options.nil THEN EmptyObj ELSE form(options.ops), key, uid)

\* the keys of the forms of the package in the order of sort.Strings
KeyOrder ==
    <<"amount", "imp_uid", "merchant_uid", "reason", "refund_account", "refund_bank",
      "refund_holder">>

\* url.QueryEscape on the values of the model: a space becomes "+", "%"
\* becomes "%25", letters, digits and "_" stay
QueryEscape(v) ==
    CASE v = "customer request" -> "customer+request"
      [] v = "%zz" -> "%25zz"
      [] OTHER -> v

\* url.Values.Encode: the pairs key=value, sorted by key, values escaped
Encode(vals) ==
    LET keys == SelectSeq(KeyOrder, LAMBDA k : k \in DOMAIN vals)
    IN  [i \in 1..Len(keys) |-> <<keys[i], QueryEscape(vals[keys[i]])>>]

-----------------------------------------------------------------------------
(* Actions *)

\* GetToken called by the user of the package, up to its request
GetToken(c) ==
    LET fr == Frame("GetToken")
        err == GetTokenCheck(APIKey, APISecret)
    IN  /\ CanCall(c)
        /\ IF err # ErrNil
           THEN Return(c, fr, "creds", err, NoRec, FALSE)
           ELSE SendToken(c, fr)
        /\ UNCHANGED <<APIKey, APISecret, AccessToken, srcFile, usage, now, acqFailed>>

\* StartOp with a deduplicated refresh: a call that finds the token request
\* of another call in flight sends none of its own and goes on with the
\* cached token
StartOp_Dedup(c, op, url, frm, args) ==
    LET fr == [Frame(op) EXCEPT !.form = frm, !.body = Encode(frm), !.args = args]
        cerr == GetTokenCheck(APIKey, APISecret)
        inFlight == \E d \in Callers \ {c} : pc[d] \in {"tokenWait", "storeExpired"}
    IN  /\ CanCall(c)
        /\ op \in OpsOf(srcFile)
        /\ IF NewRequestErr(url) # ErrNil
           THEN /\ Return(c, fr, "url", NewRequestErr(url), ZeroOf(op), FALSE)
                /\ acqFailed' = acqFailed
           ELSE IF NeedsToken(AccessToken.Token, AccessToken.Expired, now) /\ ~inFlight
           THEN IF cerr # ErrNil
                THEN /\ Return(c, fr, "creds", cerr, ZeroOf(op), FALSE)
                     /\ acqFailed' = TRUE
                ELSE /\ SendToken(c, fr)
                     /\ acqFailed' = acqFailed
           ELSE /\ SendAPI(c, fr, AccessToken.Token)
                /\ acqFailed' = acqFailed
        /\ UNCHANGED <<APIKey, APISecret, AccessToken, srcFile, usage, now>>

\* an authenticated operation from its call to its first request:
\* http.NewRequest, then authorization, which calls GetToken or reads the
\* cached token
StartOp(c, op, url, frm, args) ==
    LET fr == [Frame(op) EXCEPT !.form = frm, !.body = Encode(frm), !.args = args]
        cerr == GetTokenCheck(APIKey, APISecret)
    IN  /\ CanCall(c)
        /\ op \in OpsOf(srcFile)
        /\ IF NewRequestErr(url) # ErrNil
           THEN /\ Return(c, fr, "url", NewRequestErr(url), ZeroOf(op), FALSE)
                /\ acqFailed' = acqFailed
           ELSE IF NeedsToken(AccessToken.Token, AccessToken.Expired, now)
           THEN IF cerr # ErrNil
                THEN /\ Return(c, fr, "creds", cerr, ZeroOf(op), FALSE)
                     /\ acqFailed' = TRUE
                ELSE /\ SendToken(c, fr)
                     /\ acqFailed' = acqFailed
           ELSE /\ SendAPI(c, fr, AccessToken.Token)
                /\ acqFailed' = acqFailed
        /\ UNCHANGED <<APIKey, APISecret, AccessToken, srcFile, usage, now>>

GetPaymentImpUID(c, iuid) ==
    StartOp(c, "GetPaymentImpUID", <<"https://api.iamport.kr/payments/", iuid>>, EmptyObj,
            NoArgs)

GetPaymentMerchantUID(c, muid) ==
    StartOp(c, "GetPaymentMerchantUID", <<"https://api.iamport.kr/payments/find/", muid>>,
            EmptyObj, NoArgs)

GetPaymentsStatus(c, status, page) ==
    StartOp(c, "GetPaymentsStatus", StatusURL(status, page), EmptyObj, NoArgs)

cancelPayment(c, op, key, uid, options) ==
    StartOp(c, op, <<"https://api.iamport.kr/payments/cancel">>, CancelForm(key, uid, options),
            [uid |-> uid, options |-> options])

CancelPaymentImpUID(c, iuid, options) ==
    cancelPayment(c, "CancelPaymentImpUID", "imp_uid", iuid, options)

CancelPaymentMerchantUID(c, muid, options) ==
    cancelPayment(c, "CancelPaymentMerchantUID", "merchant_uid", muid, options)

PreparePayment(c, muid, amount) ==
    StartOp(c, "PreparePayment", <<"https://api.iamport.kr/payments/prepare">>,
            FormSet(FormSet(EmptyObj, "merchant_uid", muid), "amount", ToString(amount)),
            NoArgs)

GetPreparedPayment(c, muid) ==
    StartOp(c, "GetPreparedPayment", <<"https://api.iamport.kr/payments/prepare/", muid>>,
            EmptyObj, NoArgs)

\* TokenResponse with an authorization that drops the error of GetToken and
\* goes on with the cached token
TokenResponse_IgnoreErr(c, resp) ==
    LET fr == [call[c] EXCEPT !.resp = resp]
        r == Finish(srcFile, "GetToken", resp)
    IN  /\ pc[c] = "tokenWait"
        /\ IF r.err # ErrNil
           THEN /\ IF fr.op = "GetToken"
                   THEN Return(c, fr, "token", r.err, NoRec, r.decoded)
                   ELSE SendAPI(c, fr, AccessToken.Token)
                /\ UNCHANGED <<AccessToken, acqFailed>>
           ELSE /\ AccessToken' = [AccessToken EXCEPT !.Token = r.rec.access_token]
                /\ pc' = [pc EXCEPT ![c] = "storeExpired"]
                /\ call' = [call EXCEPT ![c] = [fr EXCEPT !.expiredAt = r.rec.expired_at]]
                /\ UNCHANGED <<ret, acqFailed>>
        /\ UNCHANGED <<APIKey, APISecret, srcFile, usage, now>>

\* GetToken from the answer of the token endpoint: an error returns from
\* GetToken and from the operation that called it, success stores Token
TokenResponse(c, resp) ==
    LET fr == [call[c] EXCEPT !.resp = resp]
        r == Finish(srcFile, "GetToken", resp)
    IN  /\ pc[c] = "tokenWait"
        /\ IF r.err # ErrNil
           THEN /\ Return(c, fr, "token", r.err, ZeroOf(fr.op), r.decoded)
                /\ acqFailed' = IF fr.op = "GetToken" THEN acqFailed ELSE TRUE
                /\ AccessToken' = AccessToken
           ELSE /\ AccessToken' = [AccessToken EXCEPT !.Token = r.rec.access_token]
                /\ pc' = [pc EXCEPT ![c] = "storeExpired"]
                /\ call' = [call EXCEPT ![c] = [fr EXCEPT !.expiredAt = r.rec.expired_at]]
                /\ UNCHANGED <<ret, acqFailed>>
        /\ UNCHANGED <<APIKey, APISecret, srcFile, usage, now>>

\* GetToken stores Expired and returns nil; authorization then returns the
\* cached token and the operation sends its request
StoreExpired(c) ==
    LET fr == call[c]
    IN  /\ pc[c] = "storeExpired"
        /\ AccessToken' = [AccessToken EXCEPT !.Expired = TimeUnix(fr.expiredAt)]
        /\ IF fr.op = "GetToken"
           THEN Return(c, fr, "token", ErrNil, NoRec, TRUE)
           ELSE SendAPI(c, fr, AccessToken.Token)
        /\ acqFailed' = FALSE
        /\ UNCHANGED <<APIKey, APISecret, srcFile, usage, now>>

\* an authenticated operation from the answer of its request to its return
ApiResponse(c, resp) ==
    LET fr == [call[c] EXCEPT !.resp = resp]
        r == Finish(srcFile, fr.op, resp)
    IN  /\ pc[c] = "apiWait"
        /\ Return(c, fr, "api", r.err, r.rec, r.decoded)
        /\ acqFailed' = FALSE
        /\ UNCHANGED <<APIKey, APISecret, AccessToken, srcFile, usage, now>>

\* time passes
Tick ==
    /\ now < TimeUnix(MaxClock)
    /\ now' = now + 1
    /\ UNCHANGED <<APIKey, APISecret, AccessToken, srcFile, usage, pc, call, ret, acqFailed>>

Next ==
    \/ \E c \in Callers : GetToken(c)
    \/ \E c \in Callers, uid \in UIDs : GetPaymentImpUID(c, uid)
    \/ \E c \in Callers, uid \in UIDs : GetPaymentMerchantUID(c, uid)
    \/ \E c \in Callers, st \in StatusArgs, page \in Pages : GetPaymentsStatus(c, st, page)
    \/ \E c \in Callers, uid \in UIDs, o \in OptionSets : CancelPaymentImpUID(c, uid, o)
    \/ \E c \in Callers, uid \in UIDs, o \in OptionSets : CancelPaymentMerchantUID(c, uid, o)
    \/ \E c \in Callers, uid \in UIDs, a \in Amounts : PreparePayment(c, uid, a)
    \/ \E c \in Callers, uid \in UIDs : GetPreparedPayment(c, uid)
    \/ \E c \in Callers, resp \in TokenResponses : TokenResponse(c, resp)
    \/ \E c \in Callers : StoreExpired(c)
    \/ \E c \in Callers, resp \in ApiResponses : ApiResponse(c, resp)
    \/ Tick

Spec == Init /\ [][Next]_vars

\* the answer 200 of the token endpoint with token a that expires at e
TokenAnswer(a, e) ==
    [terr |-> FALSE, status |-> StatusOK,
     body |-> [syntaxOK |-> TRUE, typeOK |-> TRUE,
               obj |-> [code |-> 0, message |-> "",
                        response |-> [access_token |-> a, expired_at |-> e, now |-> 0]]]]

\* the answers of the token endpoint to concurrent calls: a refusal, a
\* token that expired a second before the epoch and one that expires two
\* seconds after it
ConcTokenResponses ==
    { r \in TokenResponses : r.status = StatusUnauthorized }
    \cup { TokenAnswer("tokA", 0 - 1), TokenAnswer("tokB", 2) }

\* the answers of the API endpoints to concurrent calls: a payment
ConcApiResponses ==
    { r \in ApiResponses :
        /\ r.status = StatusOK /\ r.body.syntaxOK /\ r.body.typeOK
        /\ r.body.obj.code = 0 /\ r.body.obj.message = ""
        /\ r.body.obj.response # EmptyObj }

\* a client with key and secret, shared by goroutines that call it at the
\* same time
InitConc ==
    /\ NewClient
    /\ APIKey # ""
    /\ APISecret # ""
    /\ srcFile = "iamport.go"
    /\ usage = "concurrent"

\* concurrent lookups; the clock stands at the epoch while they race
NextConc ==
    \/ \E c \in Callers : GetPaymentImpUID(c, "uid_1")
    \/ \E c \in Callers, resp \in ConcTokenResponses : TokenResponse(c, resp)
    \/ \E c \in Callers : StoreExpired(c)
    \/ \E c \in Callers, resp \in ConcApiResponses : ApiResponse(c, resp)

SpecConc == InitConc /\ [][NextConc]_vars

-----------------------------------------------------------------------------
(* Properties *)

\* the validity invariant of the data model: the token is not empty, its
\* expiry is set and strictly after t
Usable(tok, exp, t) == tok # "" /\ ~IsZero(exp) /\ Before(t, exp)

\* the calls of authenticated operations that are in progress
InCall(c) == pc[c] # "idle" /\ call[c].op \in AuthOps

\* in this step caller c calls an authenticated operation that sends a request
Begins(c) == pc[c] = "idle" /\ pc'[c] # "idle" /\ call'[c].op \in AuthOps

\* in this step an authenticated operation is called and returns at once
ReturnsAtOnce ==
    /\ \A c \in Callers : pc[c] = "idle" /\ pc'[c] = "idle"
    /\ now' = now
    /\ ret'.op \in AuthOps

\* C1: while a cached token is usable (not empty, expiry set and strictly in
\* the future), an authenticated operation sends no request to the token
\* endpoint.  The code does the opposite: see C1 in the results.
C1_UsableTokenReused ==
    \A c \in Callers :
        ( /\ InCall(c)
          /\ Usable(call[c].tok0, call[c].exp0, call[c].now0)
          /\ Before(now, call[c].exp0) )
        => call[c].tokReqs = 0

\* C2: when the cached token is not empty and its expiry is set but in the
\* past, the API request of an authenticated operation is sent after exactly
\* one token acquisition, and never carries the stale token.
C2_ExpiredTokenRefreshed ==
    \A c \in Callers :
        ( /\ InCall(c)
          /\ pc[c] = "apiWait"
          /\ call[c].tok0 # ""
          /\ ~IsZero(call[c].exp0)
          /\ Before(call[c].exp0, call[c].now0) )
        => /\ call[c].tokReqs = 1
           /\ ~(call[c].tokReqs = 0 /\ call[c].hdr = call[c].tok0)

\* C3 as stated: with an empty cached token or a zero expiry, every call of
\* an authenticated operation sends exactly one request to the token
\* endpoint, before its API request.
C3_Original ==
    [][ (AccessToken.Token = "" \/ IsZero(AccessToken.Expired))
        => /\ ~ReturnsAtOnce
           /\ \A c \in Callers :
                Begins(c) => /\ pc'[c] = "tokenWait"
                             /\ call'[c].tokReqs = 1
                             /\ call'[c].apiReqs = 0 ]_vars

\* the frames of C3: the token request is out before the API request, and
\* there is one of it
C3_Frames ==
    \A c \in Callers :
        (InCall(c) /\ (call[c].tok0 = "" \/ IsZero(call[c].exp0)))
        => /\ call[c].tokReqs = 1
           /\ pc[c] \in {"tokenWait", "storeExpired"} => call[c].apiReqs = 0
           /\ pc[c] = "apiWait" => call[c].apiReqs = 1

\* the calls of C3: GetToken is called, and sends its request unless the
\* key or the secret is missing, or the request of the operation could not
\* be built
C3_Calls ==
    (AccessToken.Token = "" \/ IsZero(AccessToken.Expired))
    => /\ \A c \in Callers :
            Begins(c) => /\ pc'[c] = "tokenWait"
                         /\ call'[c].tokReqs = 1
                         /\ call'[c].apiReqs = 0
                         /\ APIKey # "" /\ APISecret # ""
       /\ ReturnsAtOnce
            => \/ ret'.stage = "url" /\ ret'.err = ErrURL
               \/ /\ ret'.stage = "creds"
                  /\ APIKey = "" \/ APISecret = ""
                  /\ ret'.err \in {ErrAPIKey, ErrAPISecret}

\* C3 (amended): with an empty cached token or a zero expiry, an
\* authenticated operation whose request could be built calls GetToken once
\* before its API request: that sends exactly one request to the token
\* endpoint when the key and the secret are set, and none (the call returns
\* the configuration error) when one of them is missing.
C3_OneAcquisition == []C3_Frames /\ [][C3_Calls]_vars

\* witness of C3: an operation that found the cache empty or without expiry
\* has sent its API request after one token request
C3_Witness ==
    \E c \in Callers :
        /\ pc[c] = "apiWait"
        /\ call[c].tok0 = "" \/ IsZero(call[c].exp0)
        /\ call[c].tokReqs = 1
        /\ call[c].apiReqs = 1

\* the configuration error of the client
ConfigErr == IF APIKey = "" THEN ErrAPIKey ELSE ErrAPISecret

Envelope(resp) ==
    /\ ~resp.terr
    /\ resp.status = StatusOK
    /\ resp.body.syntaxOK
    /\ resp.body.typeOK

\* the answer of the token endpoint on which GetToken succeeds
TokenSuccess(resp) == Envelope(resp) /\ resp.body.obj.code = 0

\* C5: the cached token and expiry change only in a successful GetToken: a
\* GetToken that fails leaves the cache as it was before the call, and so
\* does every outcome of the request of an authenticated operation.
C5_CacheChangesOnlyOnSuccess ==
    [][ /\ AccessToken'.Token # AccessToken.Token
            => \E c \in Callers :
                  /\ pc[c] = "tokenWait"
                  /\ pc'[c] = "storeExpired"
                  /\ TokenSuccess(call'[c].resp)
        /\ AccessToken'.Expired # AccessToken.Expired
            => \E c \in Callers :
                  /\ pc[c] = "storeExpired"
                  /\ TokenSuccess(call[c].resp)
        /\ \A c \in Callers :
              (pc[c] = "tokenWait" /\ pc'[c] = "idle")
              => /\ ret'.err # ErrNil
                 /\ AccessToken' = [Token |-> call[c].tok0, Expired |-> call[c].exp0]
        /\ \A c \in Callers :
              pc[c] = "apiWait" => AccessToken' = AccessToken
        /\ (ReturnsAtOnce \/ (ret'.op = "GetToken" /\ ret'.stage = "creds"))
              => AccessToken' = AccessToken ]_vars

\* witness of C5: a GetToken was answered 200 with code 1 and another
\* access_token, and the cache still holds the token it held
C5_Witness ==
    /\ ret.stage = "token"
    /\ ret.err = Errorf("boom")
    /\ Get(ret.resp.body.obj.response, "access_token", "") = "tokB"
    /\ AccessToken.Token = "tokA"
    /\ ~IsZero(AccessToken.Expired)

\* C6: after an authenticated operation failed in its token acquisition, the
\* next authenticated operation that gets to authorization acquires a token
\* again before it sends its API request, whatever time has passed.  The
\* code does not: see C6 in the results.
C6_RetryAfterFailedAcquisition ==
    \A c \in Callers :
        (acqFailed /\ InCall(c) /\ pc[c] = "apiWait") => call[c].tokReqs = 1

\* C7: when the token endpoint answers 200 with an envelope of code 0,
\* GetToken returns nil, and then Token is the access_token of that answer
\* and Expired is expired_at seconds after the Unix epoch.
C7_TokenStored ==
    /\ (ret.stage = "token" /\ TokenSuccess(ret.resp))
        => /\ ret.op = "GetToken"
           /\ ret.err = ErrNil
           /\ AccessToken.Token = ret.resp.body.obj.response.access_token
           /\ AccessToken.Expired - UnixToInternal = ret.resp.body.obj.response.expired_at
    /\ \A c \in Callers :
          (pc[c] = "storeExpired" \/ (pc[c] = "apiWait" /\ call[c].tokReqs = 1))
          => /\ TokenSuccess(call[c].resp)
             /\ AccessToken.Token = call[c].resp.body.obj.response.access_token
             /\ pc[c] = "apiWait"
                  => /\ call[c].hdr = AccessToken.Token
                     /\ AccessToken.Expired - UnixToInternal
                            = call[c].resp.body.obj.response.expired_at

\* witness of C7: GetToken has returned nil and the cache holds "tokA" with
\* the expiry 2 seconds after the epoch
C7_Witness ==
    /\ ret.op = "GetToken"
    /\ ret.err = ErrNil
    /\ ret.resp.body.obj.response.expired_at = 2
    /\ AccessToken.Token = "tokA"
    /\ AccessToken.Expired = UnixToInternal + 2

\* the operation whose tests of the status made the error of ret
Classifier == IF ret.stage = "token" THEN "GetToken" ELSE ret.op

\* C8: the status decides in a fixed order: 401 is "unauthorized"; 404 is
\* the error of the operation for the lookups and GetPreparedPayment and
\* "unknown error" for GetToken, the cancellations and PreparePayment; any
\* other status but 200 is "unknown error"; a body is decoded only on 200.
C8_StatusLadder ==
    (ret.stage \in {"token", "api"} /\ ~ret.resp.terr)
    => /\ ret.resp.status = StatusUnauthorized => ret.err = ErrUnauthorized
       /\ ret.resp.status = StatusNotFound
            => ret.err = CASE Classifier = "GetPaymentImpUID" -> ErrInvalidImpUID
                           [] Classifier = "GetPaymentMerchantUID" -> ErrInvalidMerchantUID
                           [] Classifier = "GetPreparedPayment" -> ErrInvalidMerchantUID
                           [] Classifier = "GetPaymentsStatus" -> ErrInvalidStatusOrPage
                           [] OTHER -> ErrUnknown
       /\ ret.resp.status \notin {StatusOK, StatusUnauthorized, StatusNotFound}
            => ret.err = ErrUnknown
       /\ ret.decoded <=> ret.resp.status = StatusOK
       /\ ret.resp.status # StatusOK => ret.rec = ZeroOf(ret.op)

\* witness of C8: a cancellation was answered 404 and returned "unknown
\* error" without decoding the body
C8_Witness ==
    /\ ret.op = "CancelPaymentImpUID"
    /\ ret.stage = "api"
    /\ ret.resp.status = StatusNotFound
    /\ ret.err = ErrUnknown
    /\ ~ret.decoded

\* the text of error err contains msg
Contains(err, msg) == \E i \in 1..Len(err) : err[i] = msg

\* C9: an answer of 200 whose envelope has code # 0 and message m makes the
\* operation return an error whose text contains m.  The lookups of the
\* snapshot part_001 do not: see C9 in the results.
C9_MessageSurfaced ==
    (ret.stage \in {"token", "api"} /\ Envelope(ret.resp) /\ ret.resp.body.obj.code # 0)
    => /\ ret.err # ErrNil
       /\ Contains(ret.err, ret.resp.body.obj.message)

\* C10: the record an authenticated operation returns with an error is the
\* zero value.  The code returns what it decoded: see C10 in the results.
C10_ZeroRecordOnError ==
    (ret.op \in AuthOps /\ ret.err # ErrNil) => ret.rec = Zero(RecType(ret.op))

\* the keys of the body of a request
BodyKeys(body) == { body[i][1] : i \in 1..Len(body) }

\* the value of key k in the body of a request
BodyValue(body, k) == body[CHOOSE i \in 1..Len(body) : body[i][1] = k][2]

\* key k is in the body exactly when the options are not nil and the option
\* value v is not empty, and then it carries v
OptionSent(fr, k, v) ==
    /\ k \in BodyKeys(fr.body) <=> (~fr.args.options.nil /\ v # "")
    /\ k \in BodyKeys(fr.body) => BodyValue(fr.body, k) = QueryEscape(v)

\* C11: the form body of a cancellation holds each of amount, reason,
\* refund_holder, refund_bank, refund_account whose option value is not
\* empty, none of them when its value is empty or the options are nil, and
\* one identifier with the target id: imp_uid for CancelPaymentImpUID,
\* merchant_uid for CancelPaymentMerchantUID, never both; nothing else.
C11_CancelForm ==
    \A c \in Callers :
        (pc[c] # "idle" /\ call[c].op \in CancelOps)
        => LET fr == call[c]
               ops == fr.args.options.ops
               id == IF fr.op = "CancelPaymentImpUID" THEN "imp_uid" ELSE "merchant_uid"
               other == IF fr.op = "CancelPaymentImpUID" THEN "merchant_uid" ELSE "imp_uid"
           IN  /\ OptionSent(fr, "amount", ops.Amount)
               /\ OptionSent(fr, "reason", ops.Reason)
               /\ OptionSent(fr, "refund_holder", ops.RefundHolder)
               /\ OptionSent(fr, "refund_bank", ops.RefundBank)
               /\ OptionSent(fr, "refund_account", ops.RefundAccount)
               /\ id \in BodyKeys(fr.body)
               /\ BodyValue(fr.body, id) = QueryEscape(fr.args.uid)
               /\ other \notin BodyKeys(fr.body)
               /\ BodyKeys(fr.body) \subseteq
                    {"amount", "reason", "refund_holder", "refund_bank", "refund_account", id}
               /\ Cardinality(BodyKeys(fr.body)) = Len(fr.body)

\* witness of C11: CancelPaymentImpUID("uid_1", {Amount: "100", Reason:
\* "customer request"}) has sent amount=100&imp_uid=uid_1&reason=customer+request
C11_Witness ==
    \E c \in Callers :
        /\ pc[c] = "apiWait"
        /\ call[c].op = "CancelPaymentImpUID"
        /\ ~call[c].args.options.nil
        /\ call[c].args.options.ops.RefundHolder = ""
        /\ call[c].body = << <<"amount", "100">>, <<"imp_uid", "uid_1">>,
                             <<"reason", "customer+request">> >>

\* the error GetToken makes of the answer resp of the token endpoint
AcquisitionErr(resp) ==
    IF resp.terr THEN ErrTransport
    ELSE IF resp.status = StatusUnauthorized THEN ErrUnauthorized
    ELSE IF resp.status # StatusOK THEN ErrUnknown
    ELSE IF ~resp.body.syntaxOK THEN ErrSyntax
    ELSE IF ~resp.body.typeOK THEN ErrUnmarshalType
    ELSE IF resp.body.obj.code # 0 THEN Errorf(resp.body.obj.message)
    ELSE ErrNil

\* the frames of C12: one request at most to each endpoint, the API request
\* only after the token request, if any, was answered with success
C12_Frames ==
    \A c \in Callers :
        InCall(c)
        => /\ call[c].tokReqs \in {0, 1}
           /\ call[c].apiReqs \in {0, 1}
           /\ pc[c] = "tokenWait" => call[c].tokReqs = 1 /\ call[c].apiReqs = 0
           /\ pc[c] = "storeExpired" => call[c].tokReqs = 1 /\ call[c].apiReqs = 0
           /\ pc[c] = "apiWait"
                => /\ call[c].apiReqs = 1
                   /\ call[c].tokReqs = 1 => AcquisitionErr(call[c].resp) = ErrNil

\* the steps of C12: no step of a call sends a second request to an
\* endpoint, and a call whose acquisition fails returns the error of
\* GetToken, a zero record and has sent no API request
C12_Steps ==
    /\ \A c \in Callers :
          (InCall(c) /\ pc'[c] # "idle")
          => /\ call'[c].tokReqs = call[c].tokReqs
             /\ call'[c].apiReqs \in {call[c].apiReqs, 1}
             /\ call'[c].apiReqs # call[c].apiReqs => pc[c] = "storeExpired"
    /\ \A c \in Callers :
          (InCall(c) /\ pc[c] = "tokenWait" /\ pc'[c] = "idle")
          => /\ call[c].apiReqs = 0
             /\ ret'.op = call[c].op
             /\ ret'.stage = "token"
             /\ ret'.err # ErrNil
             /\ ret'.err = AcquisitionErr(ret'.resp)
    /\ (ReturnsAtOnce /\ ret'.stage = "creds") => ret'.err = ConfigErr

\* C12: within one call of an authenticated operation nothing is retried
\* and nothing is sent after a failure: one request at most to the token
\* endpoint and one at most to the API endpoint, the API request only after
\* authorization returned without error, and after a failed acquisition no
\* API request and the error of the acquisition unchanged.
C12_NoRetry == []C12_Frames /\ [][C12_Steps]_vars

\* witness of C12: an authenticated operation has returned the
\* "unauthorized" of its token acquisition
C12_Witness ==
    /\ ret.op \in AuthOps
    /\ ret.stage = "token"
    /\ ret.resp.status = StatusUnauthorized
    /\ ret.err = ErrUnauthorized
    /\ \A c \in Callers : pc[c] = "idle"

\* the frames of C13: a call whose freshness check asked for a token has
\* sent a token request of its own, whatever the other calls are doing
C13_Frames ==
    \A c \in Callers :
        ( /\ InCall(c)
          /\ \/ call[c].tok0 = ""
             \/ IsZero(call[c].exp0)
             \/ ~Before(call[c].exp0, call[c].now0) )
        => call[c].tokReqs = 1

\* the steps of C13: a call whose token request is answered with success
\* stores the token of its answer and then the expiry of its answer over
\* whatever the cache holds, and only a failed answer ends the call there
C13_Steps ==
    \A c \in Callers :
        /\ (pc[c] = "tokenWait" /\ pc'[c] = "storeExpired")
              => AccessToken'.Token = call'[c].resp.body.obj.response.access_token
        /\ (pc[c] = "tokenWait" /\ pc'[c] = "idle") => ret'.err # ErrNil
        /\ pc[c] = "tokenWait" => pc'[c] \in {"tokenWait", "storeExpired", "idle"}
        /\ (pc[c] = "storeExpired" /\ pc'[c] # "storeExpired")
              => /\ AccessToken'.Expired = call[c].expiredAt + UnixToInternal
                 /\ AccessToken'.Token = AccessToken.Token

\* C13: the refresh is neither deduplicated nor serialised: calls that
\* evaluate the freshness check before any of them has stored a token each
\* send a request of their own to the token endpoint, and each then writes
\* Token and Expired without a guard.
C13_NoDeduplication == []C13_Frames /\ [][C13_Steps]_vars

\* witness of C13: two calls found the cache empty, each has sent its own
\* token request and got its own token, and both have stored it
C13_Witness ==
    \E c, d \in Callers :
        /\ c # d
        /\ pc[c] = "apiWait" /\ pc[d] = "apiWait"
        /\ call[c].tok0 = "" /\ call[d].tok0 = ""
        /\ call[c].tokReqs = 1 /\ call[d].tokReqs = 1
        /\ call[c].resp.body.obj.response.access_token = "tokA"
        /\ call[d].resp.body.obj.response.access_token = "tokB"

====
